---------------------------- MODULE Spec2Model ----------------------------
(***************************************************************************)
(* A model of the LinkedIn job-data pipeline: src/extract_skills.py (the   *)
(* driver main, the dedupe and sink files, skill parsing) and src/utils.py *)
(* (openai_request, the retry wrapper).                                    *)
(*                                                                         *)
(* Python strings are sequences of one-character strings. A file is the    *)
(* sequence of the lines written to it. Three specifications share the     *)
(* module: Spec (the driver main, run twice, with crashes), SpecRetry (one   *)
(* call of openai_request) and SpecJob (the body of the per-job try block  *)
(* of main on one detail response and one model response).                 *)
(***************************************************************************)
EXTENDS Integers, Sequences, FiniteSets, TLC

\* ------------------------------------------------------------------ bounds
\* The code's LOCATION_IDS has 26 entries, its page limit is 100 and its
\* max_job_ids is 10000; the model keeps the first NumLocations locations
\* and scales the two limits down.
NumLocations == 2
PageLimit == 2
max_job_ids == 2
\* Job ids the listings API can return: the decimal strings of
\* FirstId .. FirstId + NumIds - 1.
NumIds == 1
FirstId == 9
\* Listings per page.
MaxListing == 2
\* Model responses of SpecJob: every string over Alphabet up to this length.
MaxLen == 4
\* Configuration values of SpecRetry.
MaxRetriesBound == 3
MaxInitialDelay == 2
MaxBackoff == 3

\* ----------------------------------------------------------------- strings
Whitespace == {" ", "\t", "\n", "\r"}

RECURSIVE lstrip(_)
lstrip(s) ==
    IF s = <<>> THEN s
    ELSE IF Head(s) \in Whitespace THEN lstrip(Tail(s)) ELSE s

RECURSIVE rstrip(_)
rstrip(s) ==
    IF s = <<>> THEN s
    ELSE IF s[Len(s)] \in Whitespace THEN rstrip(SubSeq(s, 1, Len(s) - 1)) ELSE s

\* str.strip(): leading and trailing whitespace removed.
strip(s) == rstrip(lstrip(s))

RECURSIVE split_scan(_, _, _, _)
split_scan(s, sep, cur, out) ==
    IF s = <<>> THEN Append(out, cur)
    ELSE IF Head(s) = sep THEN split_scan(Tail(s), sep, <<>>, Append(out, cur))
    ELSE split_scan(Tail(s), sep, Append(cur, Head(s)), out)

\* str.split(sep) for a one-character separator: always at least one part.
split(s, sep) == split_scan(s, sep, <<>>, <<>>)

RECURSIVE join(_, _)
join(sep, parts) ==
    IF parts = <<>> THEN <<>>
    ELSE IF Len(parts) = 1 THEN parts[1]
    ELSE parts[1] \o sep \o join(sep, Tail(parts))

Digit == <<"0", "1", "2", "3", "4", "5", "6", "7", "8", "9">>

RECURSIVE DecStr(_)
DecStr(n) ==
    IF n < 10 THEN <<Digit[n + 1]>>
    ELSE Append(DecStr(n \div 10), Digit[(n % 10) + 1])

JobIds == {DecStr(n) : n \in FirstId .. (FirstId + NumIds - 1)}
NoId == <<>>

RECURSIVE SeqsUpTo(_, _)
SeqsUpTo(S, n) ==
    IF n = 0 THEN {<<>>}
    ELSE LET shorter == SeqsUpTo(S, n - 1)
         IN  shorter \cup {Append(s, x) : s \in {t \in shorter : Len(t) = n - 1}, x \in S}

Range(s) == {s[i] : i \in 1 .. Len(s)}

\* ------------------------------------------------------------ dedupe file
\* csv.writer's default quoting (QUOTE_MINIMAL) of one field.
csv_field(f) ==
    IF f = <<>> \/ \E i \in 1 .. Len(f) : f[i] \in {",", "\"", "\r", "\n"}
    THEN <<"\"">> \o f \o <<"\"">>
    ELSE f

\* writer.writerow([job_id]): the field and the line terminator "\r\n".
writerow_id(job_id) == csv_field(job_id) \o <<"\r", "\n">>

\* Text-mode reading: "\r\n" at the end of a line is read as "\n".
read_line(line) ==
    IF Len(line) >= 2 /\ line[Len(line) - 1] = "\r" /\ line[Len(line)] = "\n"
    THEN Append(SubSeq(line, 1, Len(line) - 2), "\n")
    ELSE line

load_queried_ids_nostrip(file) == {read_line(file[i]) : i \in 1 .. Len(file)}

load_queried_ids(file) == {strip(read_line(file[i])) : i \in 1 .. Len(file)}

\* The file opened with mode "w" in place of "a".
save_queried_ids_rewrite(file, job_ids) ==
    [i \in 1 .. Len(job_ids) |-> writerow_id(job_ids[i])]

save_queried_ids_droplast(file, job_ids) ==
    file \o [i \in 1 .. (Len(job_ids) - 1) |-> writerow_id(job_ids[i])]

RECURSIVE save_queried_ids(_, _)
save_queried_ids(file, job_ids) ==
    IF job_ids = <<>> THEN file
    ELSE save_queried_ids(Append(file, writerow_id(Head(job_ids))), Tail(job_ids))


\* ------------------------------------------------------- detail responses
\* A detail response (response.json() of fetch_job_details) is an object, an
\* array of objects and scalars, or a scalar. An object is a function from
\* DetailKeys; Absent marks a key the object does not hold.
DetailKeys ==
    {"job_position", "company_name", "Seniority_level", "job_location", "job_description"}
Absent == "<absent>"
EmptyDict == [k \in DetailKeys |-> Absent]
FullDict ==
    [k \in DetailKeys |->
        CASE k = "job_position" -> "Data Scientist"
          [] k = "company_name" -> "Acme"
          [] k = "Seniority_level" -> "Entry level"
          [] k = "job_location" -> "Berlin"
          [] OTHER -> "Build models"]
PartialDict == [FullDict EXCEPT !["company_name"] = Absent, !["Seniority_level"] = Absent]
Dicts == {FullDict, PartialDict, EmptyDict}

ObjElem(d) == [t |-> "obj", obj |-> d]
StrElem == [t |-> "str", obj |-> EmptyDict]
Obj(d) == [t |-> "obj", obj |-> d, elems |-> <<>>]
Arr(es) == [t |-> "arr", obj |-> EmptyDict, elems |-> es]
Str == [t |-> "str", obj |-> EmptyDict, elems |-> <<>>]

\* dict.get(key, default)
get(d, key, default) == IF d[key] = Absent THEN default ELSE d[key]

normalize_keep(job_details) == job_details

\* isinstance(job_details, list) and len(job_details) > 0: take element 0.
normalize(job_details) ==
    IF job_details.t = "arr" /\ Len(job_details.elems) > 0
    THEN LET e == job_details.elems[1]
         IN  [t |-> e.t, obj |-> e.obj, elems |-> <<>>]
    ELSE job_details

\* A truthiness test in place of the isinstance test.
is_dict_truthy(v) == v.t # "arr" \/ Len(v.elems) > 0

\* isinstance(job_details, dict)
is_dict(v) == v.t = "obj"

\* ------------------------------------------------------------ skill parsing
\* openai_request returns response.choices[0].message.content.strip().
openai_content(content) == strip(content)

parse_skills_keep_empty(response) ==
    LET parts == split(response, ",")
    IN  [i \in 1 .. Len(parts) |-> strip(parts[i])]

\* [skill.strip() for skill in response.split(",") if skill.strip()]
parse_skills(response) ==
    LET parts == split(response, ",")
        stripped == [i \in 1 .. Len(parts) |-> strip(parts[i])]
    IN  SelectSeq(stripped, LAMBDA x : x # <<>>)

\* extract_skills on a successful openai_request whose message content is
\* content.
extract_skills(content) == parse_skills(openai_content(content))

\* ------------------------------------------------------------ the job body
\* The body of the per-job try block of main. fetched is what
\* fetch_job_details did ([raised, value]) and llm what openai_request did
\* inside extract_skills ([kind, content], kind "ok", "exhausted" for
\* "Max retries reached", "error" for any other exception). The result
\* holds what the body appended to new_jobs and new_job_ids (jobs, ids: no
\* or one element each), how it ended, and whether extract_skills was called.
make_job(d, skills) ==
    [job_position |-> get(d, "job_position", "N/A"),
     company_name |-> get(d, "company_name", "N/A"),
     seniority_level |-> get(d, "Seniority_level", "N/A"),
     job_location |-> get(d, "job_location", "N/A"),
     skills |-> skills]

Skipped(kind, called) ==
    [kind |-> kind, jobs |-> <<>>, ids |-> <<>>, extract_called |-> called]

job_body_records_skipped(job_id, fetched, llm) ==
    IF fetched.raised
    THEN [kind |-> "detail_failed", jobs |-> <<>>, ids |-> <<job_id>>,
          extract_called |-> FALSE]
    ELSE LET job_details == normalize(fetched.value)
         IN  IF ~is_dict(job_details) THEN Skipped("malformed", FALSE)
             ELSE IF llm.kind # "ok" THEN Skipped("extract_failed", TRUE)
             ELSE [kind |-> "ok",
                   jobs |-> <<make_job(job_details.obj, extract_skills(llm.content))>>,
                   ids |-> <<job_id>>,
                   extract_called |-> TRUE]

job_body(job_id, fetched, llm) ==
    IF fetched.raised THEN Skipped("detail_failed", FALSE)
    ELSE LET job_details == normalize(fetched.value)
         IN  IF ~is_dict(job_details) THEN Skipped("malformed", FALSE)
             ELSE IF llm.kind # "ok" THEN Skipped("extract_failed", TRUE)
             ELSE [kind |-> "ok",
                   jobs |-> <<make_job(job_details.obj, extract_skills(llm.content))>>,
                   ids |-> <<job_id>>,
                   extract_called |-> TRUE]

\* What the per-job except clauses do with an exception: "continue".
job_except_break == "break"

job_except == "continue"

\* What the page-level except clauses do with an exception: "break".
page_except_raise == "raise"

page_except == "break"

\* -------------------------------------------------------------- sink file
\* A line of the sink file: its cells, and the job id the row was produced
\* for (id is not written to the file: it is kept to state the claims; the
\* header line has NoId).
HeaderLine ==
    [id |-> NoId,
     cells |-> <<"job_position", "company_name", "seniority_level", "job_location",
                 <<"s", "k", "i", "l", "l", "s">> >>]

row_of(job_id, job) ==
    [id |-> job_id,
     cells |-> <<job.job_position, job.company_name, job.seniority_level,
                 job.job_location, join(<<",", " ">>, job.skills)>>]

rows_of(jobs, ids) == [i \in 1 .. Len(jobs) |-> row_of(ids[i], jobs[i])]

\* save_job_data: the header when the file does not exist (<<>>), then one
\* row per job.
save_job_data(file, jobs, ids) ==
    (IF file = <<>> THEN <<HeaderLine>> ELSE file) \o rows_of(jobs, ids)

\* ------------------------------------------------------------------ state
LOCATION_IDS_ALL ==
    <<"101318387", "106315325", "101098412", "101949407", "104383890", "101174742",
      "90009540", "103366113", "100025096", "102199904", "101282230", "103035651",
      "105015875", "90009659", "101165590", "90009496", "104738515", "90009824",
      "100752109", "91000000", "91000002", "91000007", "90010383", "90010409",
      "101452733", "100992797">>
LOCATION_IDS == SubSeq(LOCATION_IDS_ALL, 1, NumLocations)

VARIABLES
    \* main: the program counter, the run (main is run again over the same
    \* files after it ended or crashed), and its locals
    pc, run, locIdx, page, total_job_ids, queried_ids,
    job_listings, idx, new_jobs, new_job_ids,
    \* the two files
    sinkFile, idsFile,
    \* history, kept to state the claims: what the last step did, the two
    \* files as the run found them, whether the run listed an id the dedupe
    \* file did not hold at its start, the rows of the run's completed pages,
    \* the locations whose pagination an error halted, and the location at
    \* which total_job_ids first reached max_job_ids (0: not yet)
    ev, sink0, ids0, unknownListed, doneRows, halted, capLoc,
    \* history: the page numbers fetch_job_listings was called with for the
    \* current location, in call order
    pagesFetched,
    \* openai_request: position, config, locals, and history (the delays
    \* slept, the requests sent, whether every attempt was rate-limited)
    r_pc, config, retries, delay, sleeps, requests, allLimited, r_result,
    \* the job body on one input
    j_pc, j_details, j_content, j_out, j_files

mainVars ==
    <<pc, run, locIdx, page, total_job_ids, queried_ids, job_listings, idx,
      new_jobs, new_job_ids, sinkFile, idsFile,
      ev, sink0, ids0, unknownListed, doneRows, halted, capLoc, pagesFetched>>
retryVars == <<r_pc, config, retries, delay, sleeps, requests, allLimited, r_result>>
jobVars == <<j_pc, j_details, j_content, j_out, j_files>>
vars == <<mainVars, retryVars, jobVars>>

\* What a step did; fetched is what fetch_job_details did in it (NotFetched
\* when the step did not call it).
NotFetched == [raised |-> FALSE, value |-> [t |-> "none", obj |-> EmptyDict, elems |-> <<>>]]
Event(kind, loc, id) == [kind |-> kind, loc |-> loc, id |-> id, fetched |-> NotFetched]

\* The outcomes of the external calls the driver's model draws from.
MainDetails ==
    {Obj(FullDict), Arr(<<ObjElem(FullDict)>>), Arr(<<>>),
     Arr(<<StrElem, ObjElem(FullDict)>>), Str}
MainFetched ==
    {[raised |-> TRUE, value |-> Str]} \cup {[raised |-> FALSE, value |-> v] : v \in MainDetails}
MainContent == <<"a", ",", " ", "b">>
MainLlm == {[kind |-> k, content |-> MainContent] : k \in {"ok", "exhausted", "error"}}

MainIdle ==
    /\ pc = "idle" /\ run = 0 /\ locIdx = 0 /\ page = 0 /\ total_job_ids = 0
    /\ queried_ids = {} /\ job_listings = <<>> /\ idx = 0
    /\ new_jobs = <<>> /\ new_job_ids = <<>>
    /\ sinkFile = <<>> /\ idsFile = <<>>
    /\ ev = Event("none", 0, NoId) /\ sink0 = <<>> /\ ids0 = <<>>
    /\ unknownListed = FALSE /\ doneRows = <<>> /\ halted = {} /\ capLoc = 0
    /\ pagesFetched = <<>>

RetryIdle ==
    /\ r_pc = "idle" /\ config = [MAX_RETRIES |-> 0, INITIAL_DELAY |-> 0, BACKOFF_FACTOR |-> 0]
    /\ retries = 0 /\ delay = 0 /\ sleeps = <<>> /\ requests = 0
    /\ allLimited = TRUE /\ r_result = [returned |-> FALSE, value |-> <<>>, content |-> <<>>]

JobIdle ==
    /\ j_pc = "idle" /\ j_details = Str /\ j_content = <<>>
    /\ j_out = Skipped("none", FALSE)
    /\ j_files = [sink |-> <<>>, ids |-> <<>>]

\* ------------------------------------------------------------- the driver
\* Both files start absent: a later run finds what the earlier ones wrote.
Init ==
    /\ pc = "start" /\ run = 1 /\ locIdx = 0 /\ page = 0 /\ total_job_ids = 0
    /\ queried_ids = {} /\ job_listings = <<>> /\ idx = 0
    /\ new_jobs = <<>> /\ new_job_ids = <<>>
    /\ sinkFile = <<>> /\ idsFile = <<>>
    /\ ev = Event("none", 0, NoId) /\ sink0 = <<>> /\ ids0 = <<>>
    /\ unknownListed = FALSE /\ doneRows = <<>> /\ halted = {} /\ capLoc = 0
    /\ pagesFetched = <<>>
    /\ RetryIdle /\ JobIdle

\* if job_id in queried_ids: continue
already_queried_never(job_id, ids) == FALSE

already_queried(job_id, ids) == job_id \in ids

\* A page limit that is one too high.
while_condition_extra_page(p, total) == p <= PageLimit + 1 /\ total < max_job_ids

\* while page <= 100 and total_job_ids < max_job_ids and api_credits_remaining
\* (api_credits_remaining is never set to False).
while_condition(p, total) == p <= PageLimit /\ total < max_job_ids

CapLocAt(total, loc) == IF capLoc = 0 /\ total >= max_job_ids THEN loc ELSE capLoc

\* main, up to the for loop: queried_ids = load_queried_ids(QUERIED_IDS_FILE).
Start ==
    /\ pc = "start"
    /\ queried_ids' = load_queried_ids(idsFile)
    /\ locIdx' = 1
    /\ pc' = "for"
    /\ ev' = Event("load", 0, NoId)
    /\ UNCHANGED <<retryVars, jobVars, run, page, total_job_ids, job_listings, idx,
                   new_jobs, new_job_ids, sinkFile, idsFile, sink0, ids0, unknownListed,
                   doneRows, halted, capLoc, pagesFetched>>

\* for location_id in LOCATION_IDS: page = 1; total_job_ids = len(queried_ids);
\* after the last location main returns.
ForLocation ==
    /\ pc = "for"
    /\ IF locIdx <= Len(LOCATION_IDS)
       THEN /\ page' = 1
            /\ total_job_ids' = Cardinality(queried_ids)
            /\ capLoc' = CapLocAt(Cardinality(queried_ids), locIdx)
            /\ pagesFetched' = <<>>
            /\ pc' = "while"
       ELSE /\ pc' = "done"
            /\ UNCHANGED <<retryVars, jobVars, page, total_job_ids, capLoc, pagesFetched>>
    /\ ev' = Event("for", locIdx, NoId)
    /\ UNCHANGED <<retryVars, jobVars, run, locIdx, queried_ids, job_listings, idx, new_jobs, new_job_ids,
                   sinkFile, idsFile, sink0, ids0, unknownListed, doneRows, halted>>

\* The while condition: into the body, or on to the next location.
WhileCheck ==
    /\ pc = "while"
    /\ IF while_condition(page, total_job_ids)
       THEN pc' = "fetch" /\ locIdx' = locIdx
       ELSE pc' = "for" /\ locIdx' = locIdx + 1
    /\ ev' = Event("while", locIdx, NoId)
    /\ UNCHANGED <<retryVars, jobVars, run, page, total_job_ids, queried_ids, job_listings, idx, new_jobs,
                   new_job_ids, sinkFile, idsFile, sink0, ids0, unknownListed, doneRows,
                   halted, capLoc, pagesFetched>>

\* The pages fetch_job_listings can return: up to MaxListing job ids.
Listings == SeqsUpTo(JobIds, MaxListing)

\* What "if not job_listings:" ends with: "break".
empty_listings_continue == "continue"

empty_listings == "break"

\* fetch_job_listings returns: an empty list breaks out of the while loop,
\* another one starts the for loop over it with empty new_jobs, new_job_ids.
FetchListings ==
    /\ pc = "fetch"
    /\ \E l \in Listings :
        /\ IF l = <<>>
           THEN /\ IF empty_listings = "break"
                   THEN pc' = "for" /\ locIdx' = locIdx + 1
                   ELSE pc' = "while" /\ locIdx' = locIdx
                /\ ev' = Event("listings_empty", locIdx, NoId)
                /\ UNCHANGED <<retryVars, jobVars, job_listings, idx>>
           ELSE /\ pc' = "jobs" /\ locIdx' = locIdx
                /\ job_listings' = l /\ idx' = 1
                /\ ev' = Event("listings_ok", locIdx, NoId)
        /\ unknownListed' =
              (unknownListed \/ \E i \in 1 .. Len(l) : writerow_id(l[i]) \notin Range(ids0))
    /\ new_jobs' = <<>> /\ new_job_ids' = <<>>
    /\ pagesFetched' = Append(pagesFetched, page)
    /\ UNCHANGED <<retryVars, jobVars, run, page, total_job_ids, queried_ids, sinkFile, idsFile, sink0, ids0,
                   doneRows, halted, capLoc>>

\* fetch_job_listings raises (raise_for_status, or anything else): the
\* page-level except clauses log and break.
FetchListingsFails ==
    /\ pc = "fetch"
    /\ IF page_except = "break"
       THEN pc' = "for" /\ locIdx' = locIdx + 1
       ELSE pc' = "raised" /\ locIdx' = locIdx
    /\ halted' = halted \cup {locIdx}
    /\ pagesFetched' = Append(pagesFetched, page)
    /\ ev' = Event("listings_error", locIdx, NoId)
    /\ UNCHANGED <<retryVars, jobVars, run, page, total_job_ids, queried_ids, job_listings, idx, new_jobs,
                   new_job_ids, sinkFile, idsFile, sink0, ids0, unknownListed, doneRows,
                   capLoc>>

\* One iteration of "for job in job_listings" on an id already in
\* queried_ids: continue.
SkipKnown ==
    /\ pc = "jobs" /\ idx <= Len(job_listings)
    /\ already_queried(job_listings[idx], queried_ids)
    /\ idx' = idx + 1
    /\ ev' = Event("known", locIdx, job_listings[idx])
    /\ UNCHANGED <<retryVars, jobVars, pc, run, locIdx, page, total_job_ids, queried_ids, job_listings,
                   new_jobs, new_job_ids, sinkFile, idsFile, sink0, ids0, unknownListed,
                   doneRows, halted, capLoc, pagesFetched>>

\* For each job id, what the try block can do: what fetch_job_details did
\* (fetched) and what the body made of it (out), over every outcome of the
\* two external calls.
JobOutcomes ==
    [job_id \in JobIds |->
        {[fetched |-> fetched, out |-> job_body(job_id, fetched, llm)] :
            fetched \in MainFetched, llm \in MainLlm}]

\* One iteration on any other id: the try block (fetch_job_details is
\* called), and the except clauses when it raised.
ProcessJob ==
    /\ pc = "jobs" /\ idx <= Len(job_listings)
    /\ ~already_queried(job_listings[idx], queried_ids)
    /\ \E o \in JobOutcomes[job_listings[idx]] :
        /\ new_jobs' = new_jobs \o o.out.jobs
        /\ new_job_ids' = new_job_ids \o o.out.ids
        /\ ev' = [Event(o.out.kind, locIdx, job_listings[idx]) EXCEPT !.fetched = o.fetched]
        /\ idx' = IF o.out.kind = "ok" \/ job_except = "continue"
                  THEN idx + 1
                  ELSE Len(job_listings) + 1
    /\ UNCHANGED <<retryVars, jobVars, pc, run, locIdx, page, total_job_ids, queried_ids, job_listings,
                   sinkFile, idsFile, sink0, ids0, unknownListed, doneRows, halted, capLoc, pagesFetched>>

\* After the for loop: "if new_jobs:" leads to the saves; otherwise page += 1.
PageEnd ==
    /\ pc = "jobs" /\ idx > Len(job_listings)
    /\ IF new_jobs # <<>>
       THEN pc' = "save_data" /\ page' = page
       ELSE pc' = "while" /\ page' = page + 1
    /\ ev' = Event("page_end", locIdx, NoId)
    /\ UNCHANGED <<retryVars, jobVars, run, locIdx, total_job_ids, queried_ids, job_listings, idx, new_jobs,
                   new_job_ids, sinkFile, idsFile, sink0, ids0, unknownListed, doneRows,
                   halted, capLoc, pagesFetched>>

\* save_job_data(OUTPUT_FILE, new_jobs)
SaveJobData ==
    /\ pc = "save_data"
    /\ sinkFile' = save_job_data(sinkFile, new_jobs, new_job_ids)
    /\ pc' = "save_ids"
    /\ ev' = Event("save_data", locIdx, NoId)
    /\ UNCHANGED <<retryVars, jobVars, run, locIdx, page, total_job_ids, queried_ids, job_listings, idx,
                   new_jobs, new_job_ids, idsFile, sink0, ids0, unknownListed, doneRows,
                   halted, capLoc, pagesFetched>>

\* save_queried_ids(QUERIED_IDS_FILE, new_job_ids);
\* queried_ids.update(new_job_ids); total_job_ids += len(new_job_ids);
\* page += 1. The page is complete.
SaveQueriedIds ==
    /\ pc = "save_ids"
    /\ idsFile' = save_queried_ids(idsFile, new_job_ids)
    /\ queried_ids' = queried_ids \cup Range(new_job_ids)
    /\ total_job_ids' = total_job_ids + Len(new_job_ids)
    /\ capLoc' = CapLocAt(total_job_ids + Len(new_job_ids), locIdx)
    /\ page' = page + 1
    /\ pc' = "while"
    /\ doneRows' = doneRows \o rows_of(new_jobs, new_job_ids)
    /\ ev' = Event("save_ids", locIdx, NoId)
    /\ UNCHANGED <<retryVars, jobVars, run, locIdx, job_listings, idx, new_jobs, new_job_ids, sinkFile,
                   sink0, ids0, unknownListed, halted, pagesFetched>>

\* The process stops: its memory is lost, the files stay. Stopped inside
\* save_job_data or save_queried_ids, any number of the batch's lines but
\* the last may have reached the file.
Crash ==
    /\ pc \in {"for", "while", "fetch", "jobs", "save_data", "save_ids"}
    /\ \E k \in 0 .. (IF Len(new_jobs) = 0 THEN 0 ELSE Len(new_jobs) - 1) :
        /\ sinkFile' = IF pc = "save_data" /\ k > 0
                       THEN save_job_data(sinkFile, SubSeq(new_jobs, 1, k),
                                          SubSeq(new_job_ids, 1, k))
                       ELSE sinkFile
        /\ idsFile' = IF pc = "save_ids" /\ k > 0
                      THEN save_queried_ids(idsFile, SubSeq(new_job_ids, 1, k))
                      ELSE idsFile
    /\ pc' = "crashed"
    /\ locIdx' = 0 /\ page' = 0 /\ total_job_ids' = 0 /\ queried_ids' = {}
    /\ job_listings' = <<>> /\ idx' = 0 /\ new_jobs' = <<>> /\ new_job_ids' = <<>>
    /\ ev' = Event("crash", locIdx, NoId) /\ pagesFetched' = <<>>
    /\ UNCHANGED <<retryVars, jobVars, run, sink0, ids0, unknownListed, doneRows, halted, capLoc>>

\* main is run a second time over the files the first run left (having
\* ended or crashed).
Rerun ==
    /\ pc \in {"done", "crashed"} /\ run = 1
    /\ run' = run + 1
    /\ pc' = "start"
    /\ locIdx' = 0 /\ page' = 0 /\ total_job_ids' = 0 /\ queried_ids' = {}
    /\ job_listings' = <<>> /\ idx' = 0 /\ new_jobs' = <<>> /\ new_job_ids' = <<>>
    /\ ev' = Event("rerun", 0, NoId) /\ pagesFetched' = <<>>
    /\ sink0' = sinkFile /\ ids0' = idsFile
    /\ unknownListed' = FALSE /\ doneRows' = <<>> /\ halted' = {} /\ capLoc' = 0
    /\ UNCHANGED <<retryVars, jobVars, sinkFile, idsFile>>

Next ==
    \/ Start
    \/ ForLocation
    \/ WhileCheck
    \/ FetchListings
    \/ FetchListingsFails
    \/ SkipKnown
    \/ ProcessJob
    \/ PageEnd
    \/ SaveJobData
    \/ SaveQueriedIds
    \/ Crash
    \/ Rerun

Spec == Init /\ [][Next]_vars

\* One run of main in which the process is not stopped: every external call
\* returns or raises, and the single thread of main always takes its next
\* step.
MainStep ==
    \/ Start
    \/ ForLocation
    \/ WhileCheck
    \/ FetchListings
    \/ FetchListingsFails
    \/ SkipKnown
    \/ ProcessJob
    \/ PageEnd
    \/ SaveJobData
    \/ SaveQueriedIds

SpecRun == Init /\ [][MainStep]_vars /\ WF_vars(MainStep)

\* main started over the files of an earlier run that recorded one job: one
\* the listings API still returns, or one it no longer returns. The run
\* starts with len(queried_ids) = 1, below max_job_ids.
EarlierIds == JobIds \cup {DecStr(FirstId - 1)}
EarlierJob == make_job(FullDict, extract_skills(MainContent))

InitBelowCap ==
    /\ pc = "start" /\ run = 1 /\ locIdx = 0 /\ page = 0 /\ total_job_ids = 0
    /\ queried_ids = {} /\ job_listings = <<>> /\ idx = 0
    /\ new_jobs = <<>> /\ new_job_ids = <<>>
    /\ \E earlier \in EarlierIds :
        /\ sinkFile = save_job_data(<<>>, <<EarlierJob>>, <<earlier>>)
        /\ idsFile = save_queried_ids(<<>>, <<earlier>>)
    /\ ev = Event("none", 0, NoId) /\ sink0 = sinkFile /\ ids0 = idsFile
    /\ unknownListed = FALSE /\ doneRows = <<>> /\ halted = {} /\ capLoc = 0
    /\ pagesFetched = <<>>
    /\ RetryIdle /\ JobIdle

SpecBelowCap == InitBelowCap /\ [][Next]_vars

\* --------------------------------------------------------- openai_request
RetryContents == {<<" ", "a", ",", "b", "\n">>, <<"a">>}
\* r_result: what openai_request returned (value), and the message content
\* of the attempt that succeeded.
NoResult == [returned |-> FALSE, value |-> <<>>, content |-> <<>>]

RetryInit ==
    /\ MainIdle /\ JobIdle
    /\ r_pc = "loop"
    /\ config \in [MAX_RETRIES : 0 .. MaxRetriesBound,
                   INITIAL_DELAY : 1 .. MaxInitialDelay,
                   BACKOFF_FACTOR : 1 .. MaxBackoff]
    /\ retries = 0
    /\ delay = config.INITIAL_DELAY
    /\ sleeps = <<>> /\ requests = 0 /\ allLimited = TRUE
    /\ r_result = NoResult

\* while retries < config["MAX_RETRIES"]
retry_condition_le(n, max) == n <= max

retry_condition(n, max) == n < max

\* delay *= config["BACKOFF_FACTOR"]
next_delay_add(d, factor) == d + factor

next_delay(d, factor) == d * factor

\* client.chat.completions.create returns: the stripped content is returned.
AttemptSucceeds ==
    /\ r_pc = "loop" /\ retry_condition(retries, config.MAX_RETRIES)
    /\ \E content \in RetryContents :
        r_result' = [returned |-> TRUE, value |-> openai_content(content),
                     content |-> content]
    /\ requests' = requests + 1
    /\ allLimited' = FALSE
    /\ r_pc' = "returned"
    /\ UNCHANGED <<mainVars, jobVars, config, retries, delay, sleeps>>

\* It raises RateLimitError: retries += 1; time.sleep(delay);
\* delay *= BACKOFF_FACTOR.
AttemptRateLimited ==
    /\ r_pc = "loop" /\ retry_condition(retries, config.MAX_RETRIES)
    /\ requests' = requests + 1
    /\ retries' = retries + 1
    /\ sleeps' = Append(sleeps, delay)
    /\ delay' = next_delay(delay, config.BACKOFF_FACTOR)
    /\ UNCHANGED <<mainVars, jobVars, r_pc, config, allLimited, r_result>>

\* It raises anything else: not caught, the exception leaves openai_request.
AttemptFails ==
    /\ r_pc = "loop" /\ retry_condition(retries, config.MAX_RETRIES)
    /\ requests' = requests + 1
    /\ allLimited' = FALSE
    /\ r_pc' = "propagated"
    /\ UNCHANGED <<mainVars, jobVars, config, retries, delay, sleeps, r_result>>

\* The loop ends: raise Exception("Max retries reached for OpenAI request.")
Exhausted ==
    /\ r_pc = "loop" /\ ~retry_condition(retries, config.MAX_RETRIES)
    /\ r_pc' = "raised"
    /\ UNCHANGED <<mainVars, jobVars, config, retries, delay, sleeps, requests,
                   allLimited, r_result>>

RetryNext ==
    \/ AttemptSucceeds
    \/ AttemptRateLimited
    \/ AttemptFails
    \/ Exhausted

SpecRetry == RetryInit /\ [][RetryNext]_vars

\* ------------------------------------------------- the job body on one input
Alphabet == {"a", ",", " ", "\t"}
ExampleContent ==
    <<"P", "y", "t", "h", "o", "n", ",", " ", "S", "Q", "L", ",", " ", " ",
      "J", "a", "v", "a", " ", ",", ",">>
ExampleSkills == << <<"P", "y", "t", "h", "o", "n">>, <<"S", "Q", "L">>, <<"J", "a", "v", "a">> >>
Contents == SeqsUpTo(Alphabet, MaxLen) \cup {ExampleContent}

DetailValues ==
    {Obj(d) : d \in Dicts}
        \cup {Arr(<<ObjElem(d)>>) : d \in Dicts}
        \cup {Arr(<<ObjElem(d), StrElem>>) : d \in Dicts}
        \cup {Arr(<<StrElem, ObjElem(d)>>) : d \in Dicts}
        \cup {Arr(<<>>), Arr(<<StrElem>>), Str}

SampleId == DecStr(FirstId)
Fetched(v) == [raised |-> FALSE, value |-> v]
Answered(content) == [kind |-> "ok", content |-> content]

\* The "if new_jobs:" block on files that do not exist yet: the sink
\* file and the dedupe file it leaves.
persist(jobs, ids) ==
    IF jobs # <<>>
    THEN [sink |-> save_job_data(<<>>, jobs, ids), ids |-> save_queried_ids(<<>>, ids)]
    ELSE [sink |-> <<>>, ids |-> <<>>]

JobInit ==
    /\ MainIdle /\ RetryIdle
    /\ j_pc = "call"
    /\ j_details \in DetailValues
    /\ j_content \in Contents
    /\ j_out = Skipped("none", FALSE)
    /\ j_files = [sink |-> <<>>, ids |-> <<>>]

\* The try block for SampleId: fetch_job_details returns j_details and the
\* model answers j_content.
JobCall ==
    /\ j_pc = "call"
    /\ j_out' = job_body(SampleId, Fetched(j_details), Answered(j_content))
    /\ j_pc' = "body_done"
    /\ UNCHANGED <<mainVars, retryVars, j_details, j_content, j_files>>

\* The page holding only this job ends: the saves.
JobSave ==
    /\ j_pc = "body_done"
    /\ j_files' = persist(j_out.jobs, j_out.ids)
    /\ j_pc' = "saved"
    /\ UNCHANGED <<mainVars, retryVars, j_details, j_content, j_out>>

JobNext ==
    \/ JobCall
    \/ JobSave

SpecJob == JobInit /\ [][JobNext]_vars

\* ------------------------------------------------------------------ claims
ListingKinds == {"listings_ok", "listings_empty", "listings_error"}
FailKinds == {"detail_failed", "malformed", "extract_failed"}
\* The steps that called fetch_job_details.
DetailKinds == FailKinds \cup {"ok"}

IsSuffix(s, t) == Len(s) <= Len(t) /\ SubSeq(t, Len(t) - Len(s) + 1, Len(t)) = s
IdLines(rows) == [i \in 1 .. Len(rows) |-> writerow_id(rows[i].id)]

\* C1: fetch_job_details is never invoked for a listing whose id is in the
\* dedupe store: at a step that called it, the id is neither in queried_ids
\* nor on a line of the dedupe file (which holds what the run loaded and what
\* its earlier pages added); a listing whose id is known is passed over.
KnownIdNeverFetched ==
    /\ ev.kind \in DetailKinds =>
          /\ ev.id \notin queried_ids
          /\ writerow_id(ev.id) \notin Range(idsFile)
    /\ ev.kind = "known" => ev.id \in queried_ids

\* A listing whose id the second run loaded from the file was passed over.
KnownIdNeverFetchedWitness ==
    /\ run = 2 /\ ev.kind = "known"
    /\ writerow_id(ev.id) \in Range(ids0)
    /\ pc = "jobs"

\* C2: a run that lists only ids the dedupe file held when it started adds
\* no row to the sink: the sink file stays as the run found it.
Idempotence == ~unknownListed => sinkFile = sink0

\* The second run ended, having listed ids, all of them recorded by the
\* first, which wrote rows.
IdempotenceWitness ==
    /\ run = 2 /\ pc = "done" /\ ~unknownListed
    /\ job_listings # <<>> /\ Len(sinkFile) > 1
    /\ sinkFile = sink0

RECURSIVE Pow(_, _)
Pow(b, e) == IF e = 0 THEN 1 ELSE b * Pow(b, e - 1)

\* C3: with every attempt rate-limited, openai_request sends exactly
\* MAX_RETRIES requests and ends raising, nothing returned; the k-th sleep
\* lasts INITIAL_DELAY * BACKOFF_FACTOR^(k-1).
RetryExhaustion ==
    /\ \A k \in 1 .. Len(sleeps) :
          sleeps[k] = config.INITIAL_DELAY * Pow(config.BACKOFF_FACTOR, k - 1)
    /\ (allLimited /\ r_pc = "loop") => requests <= config.MAX_RETRIES
    /\ (allLimited /\ r_pc \notin {"loop", "idle"}) =>
          /\ r_pc = "raised"
          /\ requests = config.MAX_RETRIES
          /\ Len(sleeps) = config.MAX_RETRIES
          /\ r_result = NoResult

\* MAX_RETRIES = 2 and two rate-limited attempts: raised, the second delay
\* the first times BACKOFF_FACTOR.
RetryExhaustionWitness ==
    /\ r_pc = "raised" /\ allLimited
    /\ config.MAX_RETRIES = 2 /\ config.BACKOFF_FACTOR = 2
    /\ requests = 2
    /\ sleeps = <<config.INITIAL_DELAY, config.INITIAL_DELAY * 2>>

\* C4: when fetch_job_listings raises, the rows and ids of the run's
\* completed pages are at the end of the sink and dedupe files, nothing is
\* written, main goes on to the next location without raising; and no page
\* is fetched for a location whose pagination an error halted.
PageFailureContained ==
    [][(pc = "fetch" /\ pc' # "crashed") =>
          /\ locIdx \notin halted
          /\ ev'.kind = "listings_error" =>
                /\ pc' = "for" /\ locIdx' = locIdx + 1 /\ run' = run
                /\ sinkFile' = sinkFile /\ idsFile' = idsFile
                /\ IsSuffix(doneRows', sinkFile')
                /\ IsSuffix(IdLines(doneRows'), idsFile')]_vars

\* The fetch of page 2 of the first location raised, after page 1 wrote
\* rows: main is at the for loop, on the second location.
PageFailureContainedWitness ==
    /\ ev.kind = "listings_error" /\ ev.loc = 1
    /\ page = 2 /\ doneRows # <<>>
    /\ pc = "for" /\ locIdx = 2

\* C5: once total_job_ids has reached max_job_ids at a location, no
\* fetch_job_listings or fetch_job_details call is made for a later one.
CapStopsLaterLocations ==
    ev.kind \in (ListingKinds \cup DetailKinds) => (capLoc = 0 \/ ev.loc <= capLoc)

\* C6: a job whose try block raised or was skipped as malformed leaves the
\* for loop where it is (next listing, new_jobs kept); a page ends only
\* after its last listing; a page with new jobs appends them to the sink
\* file, then their ids to the dedupe file, and the while loop goes on with
\* the next page of the same location.
JobFailureContained ==
    [][/\ (pc = "jobs" /\ ev'.kind \in FailKinds) =>
             /\ pc' = "jobs" /\ idx' = idx + 1
             /\ new_jobs' = new_jobs /\ new_job_ids' = new_job_ids
             /\ job_listings' = job_listings
             /\ page' = page /\ locIdx' = locIdx
       /\ (pc = "jobs" /\ pc' \notin {"jobs", "crashed"}) =>
             /\ idx > Len(job_listings)
             /\ IF new_jobs # <<>>
                THEN pc' = "save_data" /\ new_jobs' = new_jobs /\ new_job_ids' = new_job_ids
                ELSE pc' = "while" /\ page' = page + 1 /\ locIdx' = locIdx
       /\ (pc = "save_data" /\ pc' # "crashed") =>
             /\ pc' = "save_ids"
             /\ IsSuffix(rows_of(new_jobs, new_job_ids), sinkFile')
             /\ new_job_ids' = new_job_ids
       /\ (pc = "save_ids" /\ pc' # "crashed") =>
             /\ pc' = "while" /\ page' = page + 1 /\ locIdx' = locIdx
             /\ IsSuffix([i \in 1 .. Len(new_job_ids) |-> writerow_id(new_job_ids[i])],
                         idsFile')]_vars

\* A page listed the same new id twice; one of the two jobs failed, the
\* other was saved, and main is back at the while loop on the next page.
JobFailureContainedWitness ==
    /\ pc = "while" /\ ev.kind = "save_ids" /\ page = 2
    /\ Len(job_listings) = 2 /\ job_listings[1] = job_listings[2]
    /\ Len(new_jobs) = 1
    /\ sinkFile[Len(sinkFile)] = row_of(new_job_ids[1], new_jobs[1])

\* C7: the sink never holds two rows produced for the same job id.
SinkRowsUnique ==
    \A i, k \in 1 .. Len(sinkFile) :
        (i # k /\ sinkFile[i].id # NoId) => sinkFile[i].id # sinkFile[k].id

\* The fragments of s between commas, declaratively: a fragment starts after
\* position p (0 or a comma) and ends before the next comma or the end.
CommaPos(s) == {i \in 1 .. Len(s) : s[i] = ","}
FragEnd(s, p) ==
    CHOOSE q \in CommaPos(s) \cup {Len(s) + 1} :
        q > p /\ \A r \in CommaPos(s) : r > p => q <= r
NonWs(s, p) == {i \in (p + 1) .. (FragEnd(s, p) - 1) : s[i] \notin Whitespace}
Kept(s) == {p \in {0} \cup CommaPos(s) : NonWs(s, p) # {}}
Trimmed(s, p) ==
    SubSeq(s, CHOOSE i \in NonWs(s, p) : \A k \in NonWs(s, p) : i <= k,
              CHOOSE i \in NonWs(s, p) : \A k \in NonWs(s, p) : i >= k)
ExpectedSkills(s) ==
    [n \in 1 .. Cardinality(Kept(s)) |->
        Trimmed(s, CHOOSE p \in Kept(s) : Cardinality({q \in Kept(s) : q < p}) = n - 1)]

\* C8: the skills of a processed job are the comma-separated fragments of
\* the model's response, trimmed, the empty ones dropped, in order,
\* duplicates kept; "Python, SQL,  Java ,," gives Python, SQL, Java.
SkillParsing ==
    j_out.kind = "ok" =>
        /\ j_out.jobs[1].skills = ExpectedSkills(j_content)
        /\ j_content = ExampleContent => j_out.jobs[1].skills = ExampleSkills

SkillParsingWitness ==
    /\ j_out.kind = "ok" /\ j_content = ExampleContent
    /\ j_out.jobs[1].skills = ExampleSkills

\* C9: a detail response that is a one-element list wrapping an object gives
\* the record, the sink file and the dedupe file that the bare object gives.
DetailNormalization ==
    (j_pc # "call" /\ j_details.t = "arr" /\ Len(j_details.elems) = 1
        /\ j_details.elems[1].t = "obj") =>
        LET bare == job_body(SampleId, Fetched(Obj(j_details.elems[1].obj)),
                             Answered(j_content))
        IN  /\ bare.kind = "ok"
            /\ j_out = bare
            /\ j_pc = "saved" => j_files = persist(bare.jobs, bare.ids)

DetailNormalizationWitness ==
    /\ j_pc = "saved" /\ j_details = Arr(<<ObjElem(PartialDict)>>)
    /\ j_out.kind = "ok"
    /\ Len(j_files.sink) = 2 /\ j_files.ids = <<writerow_id(SampleId)>>
    /\ j_files.sink[2].cells[2] = "N/A"

\* C10: wherever the process stops, every row of the run's completed pages
\* is in the sink file and its id in the dedupe file, and each such id has
\* exactly one row in the sink.
CrashLosesOnlyBatch ==
    \A i \in 1 .. Len(doneRows) :
        /\ \E k \in 1 .. Len(sinkFile) : sinkFile[k] = doneRows[i]
        /\ writerow_id(doneRows[i].id) \in Range(idsFile)
        /\ Cardinality({k \in 1 .. Len(sinkFile) : sinkFile[k].id = doneRows[i].id}) = 1

\* C11: in a run that starts below the cap, neither the running total nor
\* the number of job ids in the dedupe store (in memory, in the file) ever
\* exceeds max_job_ids.
CapNeverExceeded ==
    /\ total_job_ids <= max_job_ids
    /\ Cardinality(queried_ids) <= max_job_ids
    /\ Cardinality(load_queried_ids(idsFile)) <= max_job_ids

IdsOf(rows) == [i \in 1 .. Len(rows) |-> rows[i].id]
LinesOf(ids) == [i \in 1 .. Len(ids) |-> writerow_id(ids[i])]
IsPrefix(s, t) == Len(s) <= Len(t) /\ SubSeq(t, 1, Len(s)) = s
Appended(old, new) == SubSeq(new, Len(old) + 1, Len(new))

SkippedJobUnrecorded ==
    [][/\ (pc = "jobs" /\ ev'.kind \in FailKinds) =>
             /\ sinkFile' = sinkFile /\ idsFile' = idsFile
             /\ queried_ids' = queried_ids
             /\ new_jobs' = new_jobs /\ new_job_ids' = new_job_ids
             /\ ev'.id \notin queried_ids'
             /\ writerow_id(ev'.id) \notin Range(idsFile')
       /\ (pc = "jobs" /\ pc' # "crashed" /\ idx <= Len(job_listings)
              /\ job_listings[idx] \notin queried_ids) =>
             /\ ev'.kind \in DetailKinds /\ ev'.id = job_listings[idx]
       /\ \A id \in queried_ids' : \E k \in 1 .. Len(sinkFile') : sinkFile'[k].id = id
       /\ \A i \in 1 .. Len(idsFile') :
             \E k \in 1 .. Len(sinkFile') : writerow_id(sinkFile'[k].id) = idsFile'[i]]_vars

\* A page listed the same id twice: the first job was skipped, so the
\* second listing had fetch_job_details called again, and succeeded.
SkippedJobUnrecordedWitness ==
    /\ pc = "jobs" /\ Len(job_listings) = 2 /\ idx = 3
    /\ job_listings[1] = job_listings[2]
    /\ job_listings[1] \notin queried_ids
    /\ ev.kind = "ok" /\ ev.id = job_listings[2]
    /\ Len(new_jobs) = 1 /\ sinkFile = <<>>

\* A detail response that is neither an object nor a list, an empty list, or
\* a list whose first element is not an object.
IsMalformed(v) ==
    \/ v.t \notin {"obj", "arr"}
    \/ v.t = "arr" /\ v.elems = <<>>
    \/ v.t = "arr" /\ v.elems # <<>> /\ v.elems[1].t # "obj"

\* C14: when fetch_job_details returns a malformed response the job is
\* skipped without a call of extract_skills, nothing is added to the page's
\* records, the files or queried_ids, and the for loop goes on with the
\* next listing of the page.
MalformedSkipped ==
    [][(pc = "jobs" /\ ev'.kind \in DetailKinds /\ ~ev'.fetched.raised
          /\ IsMalformed(ev'.fetched.value)) =>
          /\ ev'.kind = "malformed"
          /\ \A llm \in MainLlm : ~job_body(ev'.id, ev'.fetched, llm).extract_called
          /\ new_jobs' = new_jobs /\ new_job_ids' = new_job_ids
          /\ sinkFile' = sinkFile /\ idsFile' = idsFile /\ queried_ids' = queried_ids
          /\ pc' = "jobs" /\ idx' = idx + 1 /\ job_listings' = job_listings
          /\ page' = page /\ locIdx' = locIdx]_vars

\* The first of two listings got a list whose first element is a string
\* (its second an object): it was skipped and the second listing is next.
MalformedSkippedWitness ==
    /\ pc = "jobs" /\ ev.kind = "malformed"
    /\ ev.fetched.value = Arr(<<StrElem, ObjElem(FullDict)>>)
    /\ Len(job_listings) = 2 /\ idx = 2
    /\ new_jobs = <<>> /\ new_job_ids = <<>>

\* C15: in openai_request every step is taken inside the loop (nothing
\* follows a return or an exception leaving the function); an attempt that
\* raises anything but the rate-limit signal leaves the function at once,
\* with no sleep and nothing returned; an attempt that succeeds after k
\* rate-limit signals, k < MAX_RETRIES, returns its own content (stripped)
\* after exactly k sleeps; and no more than MAX_RETRIES requests are sent.
RetryOutcomes ==
    [][/\ r_pc = "loop"
       /\ requests' <= config.MAX_RETRIES
       /\ r_pc' = "propagated" =>
             /\ requests' = requests + 1 /\ sleeps' = sleeps
             /\ retries' = retries /\ r_result' = NoResult
       /\ r_pc' = "returned" =>
             /\ requests' = requests + 1 /\ sleeps' = sleeps
             /\ Len(sleeps') = retries /\ requests' = retries + 1
             /\ retries < config.MAX_RETRIES
             /\ r_result'.returned
             /\ r_result'.content \in RetryContents
             /\ r_result'.value = strip(r_result'.content)
       /\ (r_pc' = "loop" /\ requests' = requests + 1) =>
             /\ retries' = retries + 1 /\ Len(sleeps') = Len(sleeps) + 1]_vars

\* With MAX_RETRIES = 3, the third attempt succeeded after two rate-limit
\* signals and two sleeps.
RetryOutcomesWitness ==
    /\ r_pc = "returned" /\ config.MAX_RETRIES = 3
    /\ requests = 3 /\ Len(sleeps) = 2
    /\ r_result.returned /\ r_result.value = <<"a", ",", "b">>

\* C16: in a run that is not stopped from outside, main reaches its end
\* whatever the listings and failures, and ends after the last location;
\* the location index only ever moves to the next location; and the pages
\* fetched for a location are 1, 2, ... in this order, each once, at most
\* PageLimit of them.
RunTerminates ==
    /\ <>(pc = "done")
    /\ [](/\ pagesFetched = [i \in 1 .. Len(pagesFetched) |-> i]
          /\ Len(pagesFetched) <= PageLimit
          /\ locIdx \in 0 .. (Len(LOCATION_IDS) + 1)
          /\ pc = "done" => locIdx = Len(LOCATION_IDS) + 1
          /\ ev.kind \in ListingKinds =>
                /\ pagesFetched # <<>>
                /\ pagesFetched[Len(pagesFetched)] \in {page, page - 1})
    /\ [][locIdx' \in {locIdx, locIdx + 1}]_vars

\* main ended after fetching PageLimit pages for the last location.
RunTerminatesWitness ==
    /\ pc = "done" /\ locIdx = Len(LOCATION_IDS) + 1
    /\ Len(pagesFetched) = PageLimit /\ page = PageLimit + 1

\* C17: when fetch_job_listings returns an empty list, nothing is written,
\* no error is recorded for the location, and main goes on to the next
\* location; listings are only fetched for the current location, and the
\* location index never goes back during a run, so no further page of the
\* exhausted location is fetched.
NaturalExhaustion ==
    [][/\ (pc = "fetch" /\ ev'.kind = "listings_empty") =>
             /\ pc' = "for" /\ locIdx' = locIdx + 1 /\ run' = run
             /\ sinkFile' = sinkFile /\ idsFile' = idsFile
             /\ queried_ids' = queried_ids /\ total_job_ids' = total_job_ids
             /\ halted' = halted /\ doneRows' = doneRows
       /\ ev'.kind \in ListingKinds => pc = "fetch" /\ ev'.loc = locIdx
       /\ pc' \notin {"crashed", "start"} => locIdx' >= locIdx]_vars

\* Page 2 of the first location came back empty after page 1 wrote rows:
\* main is at the for loop, on the second location.
NaturalExhaustionWitness ==
    /\ ev.kind = "listings_empty" /\ ev.loc = 1
    /\ pagesFetched = <<1, 2>> /\ doneRows # <<>>
    /\ pc = "for" /\ locIdx = 2 /\ halted = {}

\* C18: at every step the dedupe file's content is a prefix of its content
\* after the step, and while the process lives (every step but its being
\* stopped or started again) queried_ids keeps all its elements.
DedupeAppendOnly ==
    [][/\ IsPrefix(idsFile, idsFile')
       /\ pc' \notin {"crashed", "start"} => queried_ids \subseteq queried_ids']_vars

\* A page added one id to the id the run had loaded: the file holds the
\* earlier line, then the new one.
DedupeAppendOnlyWitness ==
    /\ ev.kind = "save_ids" /\ run = 1
    /\ Len(ids0) = 1 /\ Len(idsFile) = 2 /\ idsFile[1] = ids0[1]
    /\ idsFile[2] = writerow_id(new_job_ids[1])
    /\ queried_ids = load_queried_ids(ids0) \cup {new_job_ids[1]}
    /\ Cardinality(queried_ids) = 2

\* C19: at every check of the while condition total_job_ids is the number
\* of elements of queried_ids.
TotalEqualsDedupeSize ==
    pc = "while" => total_job_ids = Cardinality(queried_ids)

=============================================================================
